---- MODULE Spec2Model ----
(***************************************************************************)
(* A model of the Confluence space crawler (confluence_scraper.py) and of  *)
(* the local query tools that read what it persists (query_agent.py).      *)
(*                                                                         *)
(* One crawl is one call of ConfluenceScraper.scrape_space: a single page  *)
(* listing call, one get_page_content task per listed page run under       *)
(* asyncio.gather, then a synchronous loop that writes one JSON file per   *)
(* successful page, then the write of summary.json.  The remote backend,   *)
(* the file system and the caller (who may cancel the task) are the        *)
(* environment.                                                            *)
(***************************************************************************)
EXTENDS Integers, Sequences, FiniteSets, TLC

\* ------------------------------------------------------------------ bounds
MaxN == 2          \* most pages a space holds (page ids are 1..N)
MaxK == 2          \* largest backend page size tried
MaxPagesCap == 2   \* largest MAX_PAGES_PER_SPACE tried
MaxLimit == 1      \* largest concurrency limit a caller asks for
MaxRuns == 2       \* crawls of the space in one behaviour
MaxStore == 4      \* most page records in the store a query runs over
MaxTopK == 1       \* largest number of pages a caller of a question tool asks for

PageIds == 1..MaxN
SummaryId == 0     \* stands for summary.json among the files of the space directory

VARIABLES
    N,                    \* pages the space holds at the backend
    K,                    \* backend page size (most pages one listing call returns)
    max_pages,            \* Config.MAX_PAGES_PER_SPACE
    include_attachments,  \* Config.INCLUDE_ATTACHMENTS
    concurrency_limit,    \* the limit the caller wants; scrape_space takes no such parameter
    run,                  \* number of the current crawl (0 before the first)
    pc,                   \* where scrape_space is
    listing,              \* the listing calls of this crawl: <<[start, limit, returned]>>
    listing_failed,       \* the listing call of this crawl raised
    pages,                \* what get_pages_in_space returned: the discovered ids, in order
    task,                 \* state of each get_page_content task, by position in pages
    save_idx,             \* position of the save loop in page_contents
    wstep,                \* where the write of the current page file is
    result,               \* the in-memory manifest scrape_space builds
    files,                \* the store: the page file of each page id
    summary_file,         \* the store: summary.json
    write_failed,         \* files whose write raised in this crawl: page ids, SummaryId for summary.json
    read_obs,             \* what the last read of a page file by a query tool saw
    attempts,             \* backend get_page_by_id calls of this crawl, per page id
    store,                \* the page records the query tools read, in listing order (each names its texts in DocTexts)
    model_loaded,         \* LLaMAHandler.model_loaded
    q_out,                \* what the last call of a query tool returned
    output_dir_exists,    \* Config.OUTPUT_DIR is there, with the directory of the space in it
    gp,                   \* one call of get_page_content looked at closely, and the save of its result
    wf,                   \* one call of ConfluenceCrewManager.run_full_workflow
    conf                  \* the settings of Config and one call of Config.validate

vars == <<N, K, max_pages, include_attachments, concurrency_limit, run, pc,
          listing, listing_failed, pages, task,
          save_idx, wstep, result, files, summary_file, write_failed, read_obs,
          attempts, store, model_loaded, q_out, output_dir_exists, gp, wf, conf>>

\* what a crawl leaves alone: the configuration, and the state of the query side
cfg == <<K, max_pages, include_attachments, concurrency_limit,
         store, model_loaded, q_out, gp, wf, conf>>
env == <<N, cfg, output_dir_exists>>

\* the variables of a crawl
crawl_state == <<N, K, max_pages, include_attachments, concurrency_limit, run, pc,
                 listing, listing_failed, pages, task, save_idx, wstep, result,
                 files, summary_file, write_failed, read_obs, attempts>>

\* ------------------------------------------------------------ pure helpers
Min(a, b) == IF a <= b THEN a ELSE b

\* ceil(n / k) for k >= 1
Ceil(n, k) == (n + k - 1) \div k

SeqToSet(s) == {s[i] : i \in 1..Len(s)}

\* The ids start+1 .. start+count as a sequence
IdRange(start, count) == [i \in 1..count |-> start + i]

\* The remote backend's paginated listing: at most `limit` pages, and never more
\* than its own page size K, starting at offset `start`.
BackendListPages(start, limit) ==
    IF start >= N THEN <<>>
    ELSE IdRange(start, Min(N - start, Min(limit, K)))

\* get_pages_in_space: ONE listing call, start=0, limit=MAX_PAGES_PER_SPACE
get_pages_in_space_args == [start |-> 0, limit |-> max_pages]

\* (mutant) the manifest names a path of its own making, not the file written
output_file_elsewhere(page_id) == <<"output_dir", "page", page_id, "json">>

\* os.path.join(output_dir, f"{page_id}.json")
output_file(page_id) == <<"output_dir", page_id, "json">>

\* What get_page_content returns once the backend call for the page has come
\* back.  The executor is shut down by the `with` block before the attachment
\* call is submitted to it, so with INCLUDE_ATTACHMENTS the submit raises
\* RuntimeError and the except clause turns the page into an error result.
get_page_content_result(backend_ok) ==
    IF ~backend_ok THEN "error_fetch"
    ELSE IF include_attachments THEN "error_attachments"
    ELSE "ok"

IsError(t) == t \in {"error_fetch", "error_attachments"}
\* (mutant) gather counts a task as finished only when it succeeded
IsDone_success_only(t) == t = "ok"

\* asyncio.gather(..., return_exceptions=True) returns when every task has ended,
\* with a page or with an error dict
IsDone(t) == t = "ok" \/ IsError(t)

\* (mutant) every content is written, error dicts too
is_saved_always(t) == TRUE

\* if isinstance(content, dict) and 'error' not in content
is_saved(t) == ~IsError(t)

\* ---------------------------------------------------------------- the store
Absent == [kind |-> "absent", run |-> 0]
FileKinds == {"absent", "empty", "partial", "complete"}
NoSummary == [run |-> 0, total_pages |-> 0, pages |-> <<>>]
NoRead == [id |-> 0, kind |-> "none", run |-> 0]
NoResult == [total_pages |-> 0, pages |-> <<>>]

\* ------------------------------------------------------------------- Init
\* No query tool has been called
NoOutput == [tool |-> "none", query |-> <<>>, want_k |-> 0, dir |-> "none",
             env_ok |-> TRUE, status |-> "none",
             items |-> <<>>, total |-> 0, answer |-> "none"]

\* get_page_content has not been called
NoPage == [pc |-> "idle",
           raw |-> [title |-> TRUE, body |-> TRUE, version |-> TRUE],
           att_backend_ok |-> TRUE, pool |-> "none", fetch_ok |-> FALSE,
           att_requests |-> 0, result |-> "none",
           record |-> [title |-> "none", content |-> "none", version |-> "none",
                       attachments |-> "none"],
           persisted |-> FALSE]

\* run_full_workflow has not been called
NoWorkflow == [pc |-> "idle", user_query |-> "None", generate_document |-> FALSE,
               started |-> <<>>, results |-> <<>>, app |-> "none"]

\* The settings as shipped (the defaults of config.py), validate not called
ShippedConf == [url |-> <<"https://", "your-", "domain.atlassian.net">>,
                username |-> <<"your-", "email", "@", "barclays.com">>,
                token |-> <<"your-", "api-token">>,
                model_path |-> <<"C:/devhome/projects/", "meta-llama">>,
                path_exists |-> FALSE, numbers_ok |-> TRUE,
                outcome |-> "none", missing_vars |-> {}, invalid_vars |-> {},
                dirs_created |-> FALSE]

\* The crawl variables before scrape_space is called
CrawlIdle ==
    /\ run = 0
    /\ pc = "idle"
    /\ listing = <<>>
    /\ listing_failed = FALSE
    /\ pages = <<>>
    /\ task = <<>>
    /\ save_idx = 0
    /\ wstep = "closed"
    /\ result = NoResult
    /\ files = [i \in PageIds |-> Absent]
    /\ summary_file = NoSummary
    /\ write_failed = {}
    /\ read_obs = NoRead
    /\ attempts = [i \in PageIds |-> 0]

Init ==
    /\ N \in 0..MaxN
    /\ K \in 1..MaxK
    /\ max_pages \in 1..MaxPagesCap
    /\ include_attachments \in BOOLEAN
    /\ concurrency_limit \in 1..MaxLimit
    /\ run = 0
    /\ pc = "idle"
    /\ listing = <<>>
    /\ listing_failed = FALSE
    /\ pages = <<>>
    /\ task = <<>>
    /\ save_idx = 0
    /\ wstep = "closed"
    /\ result = NoResult
    /\ files = [i \in PageIds |-> Absent]
    /\ summary_file = NoSummary
    /\ write_failed = {}
    /\ read_obs = NoRead
    /\ attempts = [i \in PageIds |-> 0]
    /\ store = <<>>
    /\ model_loaded = FALSE
    /\ q_out = NoOutput
    /\ output_dir_exists = FALSE
    /\ gp = NoPage
    /\ wf = NoWorkflow
    /\ conf = ShippedConf

\* ------------------------------------------------------------ scrape_space
NoTaskRunning == \A i \in 1..Len(task) : task[i] # "inflight"

\* (mutant) makedirs without exist_ok: raises when the directory is there
makedirs_no_exist_ok(dir_exists) == ~dir_exists

\* os.makedirs(output_dir, exist_ok=True): succeeds whether or not the
\* directory is there already.
makedirs(dir_exists) == TRUE

\* scrape_space is called: makedirs, then the listing call is awaited.  Since
\* the previous crawl the space may have lost its last page at the backend.
scrape_space_call(n) ==
    /\ pc \in {"idle", "returned", "raised", "cancelled"}
    /\ NoTaskRunning
    /\ run < MaxRuns
    /\ n = N \/ (run >= 1 /\ n = N - 1 /\ n >= 0)
    /\ N' = n
    /\ output_dir_exists' = TRUE
    /\ run' = run + 1
    /\ pc' = IF makedirs(run >= 1) THEN "listing" ELSE "raised"
    /\ listing' = <<>>
    /\ listing_failed' = FALSE
    /\ pages' = <<>>
    /\ task' = <<>>
    /\ save_idx' = 0
    /\ wstep' = "closed"
    /\ result' = NoResult
    /\ write_failed' = {}
    /\ attempts' = [i \in PageIds |-> 0]
    /\ UNCHANGED <<cfg, files, summary_file, read_obs>>

\* The listing call returns: get_pages_in_space returns its pages, and
\* scrape_space builds one get_page_content coroutine per page and awaits gather.
get_pages_in_space_return ==
    /\ pc = "listing"
    /\ LET a == get_pages_in_space_args
           got == BackendListPages(a.start, a.limit)
       IN /\ listing' = Append(listing, [start |-> a.start, limit |-> a.limit,
                                         returned |-> Len(got)])
          /\ pages' = got
          /\ task' = [i \in 1..Len(got) |-> "pending"]
    /\ pc' = "gather"
    /\ UNCHANGED <<env, run, listing_failed, save_idx,
                   wstep, result, files, summary_file, write_failed, read_obs, attempts>>

\* The listing call raises (connection, authentication): the except clause logs
\* and returns [], and scrape_space goes on with no pages.
get_pages_in_space_except ==
    /\ pc = "listing"
    /\ listing' = Append(listing, [start |-> get_pages_in_space_args.start,
                                   limit |-> get_pages_in_space_args.limit,
                                   returned |-> 0])
    /\ listing_failed' = TRUE
    /\ pages' = <<>>
    /\ task' = <<>>
    /\ pc' = "gather"
    /\ UNCHANGED <<env, run, save_idx, wstep, result,
                   files, summary_file, write_failed, read_obs, attempts>>

\* A get_page_content task runs to its first await: it creates its own
\* ThreadPoolExecutor and submits the backend call.  gather schedules the tasks
\* in list order; nothing makes a task wait for another.
get_page_content_start(i) ==
    /\ pc = "gather"
    /\ i \in 1..Len(task)
    /\ task[i] = "pending"
    /\ \A j \in 1..(i - 1) : task[j] # "pending"
    /\ task' = [task EXCEPT ![i] = "inflight"]
    /\ attempts' = [attempts EXCEPT ![pages[i]] = @ + 1]
    /\ UNCHANGED <<env, run, pc, listing, listing_failed, pages,
                   save_idx, wstep, result, files,
                   summary_file, write_failed, read_obs>>

\* The backend call of a task comes back (with the page, or raising), and the
\* task runs to its end.  After a cancellation the thread still finishes its
\* call, and the result is dropped.
get_page_content_return(i, backend_ok) ==
    /\ pc \in {"gather", "cancelled"}
    /\ i \in 1..Len(task)
    /\ task[i] = "inflight"
    /\ task' = [task EXCEPT ![i] = IF pc = "cancelled" THEN "cancelled"
                                   ELSE get_page_content_result(backend_ok)]
    /\ UNCHANGED <<env, run, pc, listing, listing_failed, pages,
                   save_idx, wstep, result, files,
                   summary_file, write_failed, read_obs, attempts>>

\* gather returns once every task has finished; the result dict is created.
gather_return ==
    /\ pc = "gather"
    /\ \A i \in 1..Len(task) : IsDone(task[i])
    /\ pc' = "save"
    /\ save_idx' = 1
    /\ result' = [total_pages |-> Len(pages), pages |-> <<>>]
    /\ UNCHANGED <<env, run, listing, listing_failed, pages, task,
                   wstep, files, summary_file,
                   write_failed, read_obs, attempts>>

\* ---- the save loop: for content in page_contents
\* (mutant) from the second crawl on, the write leaves the content of the
\* crawl before in the file
written_record_stale(old, r) == [kind |-> "complete", run |-> IF r > 1 THEN r - 1 ELSE r]

\* json.dump(content, f) into a file opened with 'w': the file ends up holding
\* the record of this crawl and nothing of what it held before.
written_record(old, r) == [kind |-> "complete", run |-> r]

CurrentId == pages[save_idx]

\* else-branch: the content is an error dict; it is logged, nothing is recorded.
save_skip ==
    /\ pc = "save"
    /\ save_idx \in 1..Len(task)
    /\ ~is_saved(task[save_idx])
    /\ save_idx' = save_idx + 1
    /\ UNCHANGED <<env, run, pc, listing, listing_failed, pages, task, wstep,
                   result, files, summary_file, write_failed, read_obs, attempts>>

\* open(output_file, 'w'): truncates the file, or raises (the exception leaves
\* scrape_space: nothing catches it).
save_open(ok) ==
    /\ pc = "save"
    /\ save_idx \in 1..Len(task)
    /\ is_saved(task[save_idx])
    /\ wstep = "closed"
    /\ IF ok
       THEN /\ files' = [files EXCEPT ![CurrentId] = [kind |-> "empty", run |-> run]]
            /\ wstep' = "open"
            /\ UNCHANGED <<pc, write_failed>>
       ELSE /\ pc' = "raised"
            /\ write_failed' = write_failed \cup {CurrentId}
            /\ UNCHANGED <<files, wstep>>
    /\ UNCHANGED <<env, run, listing, listing_failed, pages, task, save_idx,
                   result, summary_file, read_obs, attempts>>

\* json.dump writes the record piece by piece: a first part reaches the file.
save_dump ==
    /\ pc = "save"
    /\ wstep = "open"
    /\ files' = [files EXCEPT ![CurrentId] = [kind |-> "partial", run |-> run]]
    /\ wstep' = "dumping"
    /\ UNCHANGED <<env, run, pc, listing, listing_failed, pages, task, save_idx,
                   result, summary_file, write_failed, read_obs, attempts>>

\* The rest is written and the file closed, and the page is appended to
\* result['pages']; or the write raises (disk full) and leaves the partial file.
save_close(ok) ==
    /\ pc = "save"
    /\ wstep = "dumping"
    /\ wstep' = "closed"
    /\ IF ok
       THEN /\ files' = [files EXCEPT ![CurrentId] = written_record(@, run)]
            /\ result' = [result EXCEPT !.pages =
                            Append(@, [id |-> CurrentId,
                                       saved_to |-> output_file(CurrentId)])]
            /\ save_idx' = save_idx + 1
            /\ UNCHANGED <<pc, write_failed>>
       ELSE /\ pc' = "raised"
            /\ write_failed' = write_failed \cup {CurrentId}
            /\ UNCHANGED <<files, result, save_idx>>
    /\ UNCHANGED <<env, run, listing, listing_failed, pages, task, summary_file,
                   read_obs, attempts>>

\* After the loop: summary.json is written and the result returned; or the
\* write raises.
save_summary(ok) ==
    /\ pc = "save"
    /\ save_idx = Len(task) + 1
    /\ IF ok
       THEN /\ summary_file' = [run |-> run, total_pages |-> result.total_pages,
                                pages |-> result.pages]
            /\ pc' = "returned"
            /\ UNCHANGED write_failed
       ELSE /\ pc' = "raised"
            /\ write_failed' = write_failed \cup {SummaryId}
            /\ UNCHANGED summary_file
    /\ UNCHANGED <<env, run, listing, listing_failed, pages, task, save_idx, wstep,
                   result, files, read_obs, attempts>>

\* The caller cancels the task running scrape_space.  asyncio delivers the
\* CancelledError at the await the coroutine is suspended in (the listing call
\* or gather); `except Exception` does not catch it, so it leaves scrape_space.
\* Tasks that have not started never start; running backend calls finish in
\* their threads.
cancel ==
    /\ pc \in {"listing", "gather"}
    /\ pc' = "cancelled"
    /\ UNCHANGED <<env, run, listing, listing_failed, pages, task, save_idx, wstep,
                   result, files, summary_file, write_failed, read_obs, attempts>>

\* ----------------------------------------------------------- query tools
\* PageContentTool._run / ContentQueryTool._run open and json.load the file of a
\* page; they run outside the crawl and read whatever the file holds.
read_page_file(i) ==
    /\ run >= 1                 \* the output directory exists
    /\ read_obs' = [id |-> i, kind |-> files[i].kind, run |-> files[i].run]
    /\ read_obs' # read_obs
    /\ UNCHANGED <<env, run, pc, listing, listing_failed, pages, task, save_idx,
                   wstep, result, files, summary_file, write_failed, attempts>>

\* PageContentTool._run(page_id): the record of the page, "not found" when the
\* file is not there, an error string when json.load cannot parse it.
PageContentTool_run(id) ==
    CASE files[id].kind = "absent" -> [status |-> "not_found", run |-> 0]
      [] files[id].kind = "complete" -> [status |-> "found", run |-> files[id].run]
      [] OTHER -> [status |-> "error", run |-> 0]

\* ------------------------------------------------- notions the claims use
InFlight == {i \in 1..Len(task) : task[i] = "inflight"}

\* The backend call of task i came back without raising / raising
BackendSucceeded == {i \in 1..Len(task) : task[i] \in {"ok", "error_attachments"}}
BackendFailed == {i \in 1..Len(task) : task[i] = "error_fetch"}

\* The ids a manifest holds an entry for (the code records successes only)
ManifestIds(m) == {m.pages[k].id : k \in 1..Len(m.pages)}

\* The page file of id holds a complete record written by the current crawl
PersistedNow(id) == files[id] = [kind |-> "complete", run |-> run]

\* get_pages_in_space has come back to scrape_space
ListingDone == pc \in {"gather", "save", "returned", "raised"}

\* Ids discovered by the first k listing calls
RECURSIVE DiscoveredAfter(_)
DiscoveredAfter(k) == IF k = 0 THEN 0 ELSE DiscoveredAfter(k - 1) + listing[k].returned

\* After listing call k: the backend returned fewer pages than its page size, or
\* max_pages ids are known
StopEvent(k) == listing[k].returned < K \/ DiscoveredAfter(k) >= max_pages

\* ---------------------------------------------------------------- claims

\* C1: during a crawl with concurrency limit C, the number of page-content
\* fetches started and not yet completed is at most C in every reachable state.
C1_BoundedConcurrency == Cardinality(InFlight) <= concurrency_limit

\* C2: the manifest of a completed crawl holds exactly one outcome for each
\* discovered page id: none is missing, none appears twice.
C2_OneOutcomePerDiscoveredId ==
    pc = "returned" =>
        /\ ManifestIds(summary_file) = SeqToSet(pages)
        /\ Len(summary_file.pages) = Len(pages)

\* C3: if the backend fetch of exactly one discovered id fails and every other
\* one succeeds (and no store write fails), the finished crawl has a successful
\* outcome and a persisted record for every other id, and the persisted count is
\* the discovered count minus 1.
C3_IsolationUnderFailure ==
    (pc = "returned" /\ Cardinality(BackendFailed) = 1 /\ write_failed = {}) =>
        /\ \A i \in BackendSucceeded :
              pages[i] \in ManifestIds(summary_file) /\ PersistedNow(pages[i])
        /\ Len(summary_file.pages) = summary_file.total_pages - 1

\* C4: for a space of N pages (N <= max_pages) and backend page size K, the
\* crawler issues exactly ceil(N/K) listing calls with advancing offsets and
\* discovers all N ids.  (Stated for N >= 1: an empty space still costs the one
\* call that finds it empty, which no crawler can avoid.)
C4_PaginationComplete ==
    (ListingDone /\ ~listing_failed /\ N >= 1 /\ N <= max_pages) =>
        /\ Len(listing) = Ceil(N, K)
        /\ \A k \in 1..Len(listing) : listing[k].start = DiscoveredAfter(k - 1)
        /\ SeqToSet(pages) = 1..N

\* C5: pagination stops at the first of: the backend returns fewer pages than
\* the page size, or max_pages ids are discovered; no listing call follows
\* either event, and the discovered ids never exceed max_pages.
C5_PaginationStops ==
    (ListingDone /\ ~listing_failed) =>
        /\ StopEvent(Len(listing))
        /\ \A k \in 1..(Len(listing) - 1) : ~StopEvent(k)
        /\ Len(pages) <= max_pages

\* C6: if the listing call fails the crawl aborts with an error: no page fetch
\* is issued, and no manifest of a completed crawl is written or returned.
C6_ListingFailureAborts ==
    listing_failed =>
        /\ task = <<>>
        /\ pc # "returned"
        /\ summary_file.run # run

\* C7: if the write of one page record fails, no exception leaves the crawl.
C7_WriteFailureCaptured == (write_failed \cap PageIds) # {} => pc # "raised"

\* C8: persistence is incremental: while the crawl still waits for other
\* fetches, every page whose fetch has completed successfully is in the store.
C8_IncrementalPersistence ==
    \A i \in 1..Len(task) :
        (pc = "gather" /\ task[i] = "ok" /\ \E j \in 1..Len(task) : ~IsDone(task[j]))
            => PersistedNow(pages[i])

\* C9: a reader of a page record never sees an empty or partially written one.
C9_AtomicPutPage == read_obs.kind \notin {"empty", "partial"}

\* C10: a crawl cancelled after some fetches have completed and before the
\* others have leaves a manifest of this crawl, marked incomplete: persisted
\* count below discovered count.
C10_CancelledManifestIncomplete ==
    (/\ pc = "cancelled"
     /\ \E i \in 1..Len(task) : IsDone(task[i])
     /\ \E i \in 1..Len(task) : ~IsDone(task[i])) =>
        /\ summary_file.run = run
        /\ Len(summary_file.pages) < summary_file.total_pages

Next ==
    \/ \E n \in 0..MaxN : scrape_space_call(n)
    \/ get_pages_in_space_return
    \/ get_pages_in_space_except
    \/ \E i \in PageIds : get_page_content_start(i)
    \/ \E i \in PageIds, ok \in BOOLEAN : get_page_content_return(i, ok)
    \/ gather_return
    \/ save_skip
    \/ \E ok \in BOOLEAN : save_open(ok)
    \/ save_dump
    \/ \E ok \in BOOLEAN : save_close(ok)
    \/ \E ok \in BOOLEAN : save_summary(ok)
    \/ cancel
    \/ \E i \in PageIds : read_page_file(i)

Spec == Init /\ [][Next]_vars

\* C12: once a crawl has written page X, a lookup of X returns the record of
\* this crawl in full, whatever record of X an earlier crawl had left.
C12_OverwriteThenLookup ==
    \A id \in PageIds :
        (pc \in {"save", "returned"} /\ id \in ManifestIds(result)) =>
            PageContentTool_run(id) = [status |-> "found", run |-> run]

\* page 1 was read holding the record of crawl 1, crawl 2 has since written it
\* again, and a lookup now returns the record of crawl 2
C12_Witness ==
    /\ run = 2
    /\ 1 \in ManifestIds(result)
    /\ read_obs = [id |-> 1, kind |-> "complete", run |-> 1]
    /\ PageContentTool_run(1) = [status |-> "found", run |-> 2]

\* The ids whose content the save loop of this crawl wrote
SavedIds == {pages[i] : i \in {j \in 1..Len(task) : task[j] = "ok"}}

\* C13: a crawl of a space that has persisted data never fails because of that
\* data (it raises only when a store write raises); when it returns, the
\* manifest in the store describes this crawl only, and every page fetched
\* successfully again holds the record of this crawl.
C13_RerunIsFresh ==
    run >= 2 =>
        /\ pc = "raised" => write_failed # {}
        /\ pc = "returned" =>
              /\ summary_file.run = run
              /\ summary_file.total_pages = Len(pages)
              /\ ManifestIds(summary_file) = SavedIds
              /\ Len(summary_file.pages) = Cardinality(SavedIds)
              /\ \A id \in SavedIds : PersistedNow(id)

\* crawl 2 has returned after overwriting a record crawl 1 had written
C13_Witness ==
    /\ run = 2
    /\ pc = "returned"
    /\ read_obs = [id |-> 1, kind |-> "complete", run |-> 1]
    /\ PersistedNow(1)
    /\ summary_file.run = 2

RecordsWritten == {id \in PageIds : files[id] = [kind |-> "complete", run |-> run]}

\* C25: in the manifest written at the end of a crawl the success entries
\* correspond one-to-one to the page records written during that crawl: each
\* names the location of an existing record of the same id, there are as many
\* entries as records written, and no more than the discovered count.
C25_ManifestMatchesRecords ==
    pc = "returned" =>
        /\ summary_file.run = run
        /\ ManifestIds(summary_file) = RecordsWritten
        /\ Len(summary_file.pages) = Cardinality(RecordsWritten)
        /\ \A k \in 1..Len(summary_file.pages) :
              summary_file.pages[k].saved_to =
                  <<"output_dir", summary_file.pages[k].id, "json">>
        /\ Len(summary_file.pages) <= summary_file.total_pages

\* a crawl that discovered two pages and fetched one of them has returned
C25_Witness ==
    /\ pc = "returned"
    /\ summary_file.run = run
    /\ summary_file.total_pages = 2
    /\ Len(summary_file.pages) = 1
    /\ Cardinality(RecordsWritten) = 1

\* C15: a manifest is an immutable history record: once a crawl has written its
\* manifest, no later crawl modifies or replaces it.
C15_ManifestImmutable == [][summary_file.run # 0 => summary_file' = summary_file]_vars

\* The steps of a crawl in progress: the event loop runs whatever is ready, and
\* every backend call comes back (with a result or raising).
CrawlStep ==
    \/ get_pages_in_space_return
    \/ get_pages_in_space_except
    \/ \E i \in PageIds : get_page_content_start(i)
    \/ \E i \in PageIds, ok \in BOOLEAN : get_page_content_return(i, ok)
    \/ gather_return
    \/ save_skip
    \/ \E ok \in BOOLEAN : save_open(ok)
    \/ save_dump
    \/ \E ok \in BOOLEAN : save_close(ok)
    \/ \E ok \in BOOLEAN : save_summary(ok)

\* The crawls of a deployment whose listing takes the largest page sizes
FairInit ==
    /\ Init
    /\ K = MaxK
    /\ max_pages = MaxPagesCap
    /\ concurrency_limit = MaxLimit

FairSpec == FairInit /\ [][Next]_vars /\ WF_vars(CrawlStep)

SnippetLen == 200    \* content_text[:200]
TopKDefault == 3     \* query_result[:3], relevant_content[:3]

\* str.lower() on the letters the texts here are made of
Lower(c) == CASE c = "A" -> "a" [] c = "B" -> "b" [] OTHER -> c
LowerStr(t) == [i \in 1..Len(t) |-> Lower(t[i])]

\* Python's `q in t` on strings: q occurs in t as a substring
Contains(q, t) ==
    \E i \in 0..(Len(t) - Len(q)) : \A j \in 1..Len(q) : t[i + j] = q[j]

\* str.split(): the maximal runs of non-blank characters
RECURSIVE split_from(_, _, _)
split_from(t, cur, acc) ==
    IF t = <<>> THEN (IF cur = <<>> THEN acc ELSE Append(acc, cur))
    ELSE IF Head(t) = " "
         THEN split_from(Tail(t), <<>>, IF cur = <<>> THEN acc ELSE Append(acc, cur))
         ELSE split_from(Tail(t), Append(cur, Head(t)), acc)
split(t) == split_from(t, <<>>, <<>>)

\* get_page_content: content_text[:200] + '...' if len(content_text) > 200
content_snippet(text) ==
    IF Len(text) > SnippetLen THEN SubSeq(text, 1, SnippetLen) \o <<".", ".", ".">>
    ELSE text

\* The texts the stores are made of.  LongContent has its only "b" after the
\* first SnippetLen characters.
LongContent == [i \in 1..SnippetLen |-> "x"] \o <<"b">>
DocTexts == << [title |-> <<"A">>, content |-> <<"x">>],
              [title |-> <<"a">>, content |-> <<"B">>],
              [title |-> <<"x">>, content |-> LongContent] >>

\* A page of the store is named by the position of its texts in DocTexts
Docs == DOMAIN DocTexts

\* The queries and questions tried
Queries == { <<>>, <<"a">>, <<"b">>, <<"a", " ", "b">> }

\* The record get_page_content builds and scrape_space dumps into <id>.json;
\* the page at position i of the store has id i.
page_record(i) ==
    [id |-> i, title |-> DocTexts[store[i]].title,
     content |-> DocTexts[store[i]].content,
     content_snippet |-> content_snippet(DocTexts[store[i]].content)]

\* summary.json as the query tools see it: it has no 'id', 'title' or
\* 'content_snippet', so data.get gives None (SummaryId stands for it) and ''.
summary_record ==
    [id |-> SummaryId, title |-> <<>>, content |-> <<>>, content_snippet |-> <<>>]

\* os.listdir(space_path) filtered on '.json': the page files and summary.json
json_files == [i \in 1..(Len(store) + 1) |->
                  IF i <= Len(store) THEN page_record(i) ELSE summary_record]

\* The directories a tool of agents.py may be given as output_dir: the
\* default Config.OUTPUT_DIR, or the directory of the space inside it
OutputDirs == {"OUTPUT_DIR", "space_dir"}

\* [f for f in os.listdir(output_dir) if f.endswith('.json')]: scrape_space
\* writes into OUTPUT_DIR/<space_key>, so OUTPUT_DIR itself holds no file
has_json_files(dir) == dir = "space_dir"

\* data.get('pages', []) of the latest .json file of the space directory,
\* summary.json (written last by a crawl): entries {id, title, saved_to}, so
\* page.get('content', '') is '' for each
data_pages == [i \in 1..Len(store) |->
                  [id |-> i, title |-> DocTexts[store[i]].title, content |-> <<>>]]

\* ContentQueryTool._run: the files whose lowercased title or content_snippet
\* contains the lowercased query
ContentQueryTool_results(query) ==
    SelectSeq(json_files,
              LAMBDA d : \/ Contains(LowerStr(query), LowerStr(d.title))
                         \/ Contains(LowerStr(query), LowerStr(d.content_snippet)))

\* (mutant) every result is used, not the first three
top_results_all(items) == items

\* items[:3]
top_results(items) == SubSeq(items, 1, Min(TopKDefault, Len(items)))

\* KnowledgeQueryTool._run: the pages in which any keyword of the question occurs
keyword_in(question_keywords, d) ==
    \E k \in 1..Len(question_keywords) :
        \/ Contains(question_keywords[k], LowerStr(d.content))
        \/ Contains(question_keywords[k], LowerStr(d.title))

relevant_content(question) ==
    SelectSeq(data_pages, LAMBDA d : keyword_in(split(LowerStr(question)), d))

\* LLaMAHandler.generate_response
generate_response == IF model_loaded THEN "generated" ELSE "model_not_loaded"

Ids(recs) == [i \in 1..Len(recs) |-> recs[i].id]

\* What ContentQueryTool._run returns for the results it collected: the
\* no-content message, or the list of {space, page_id, title, url}
ContentQueryTool_return(query, results) ==
    [tool |-> "ContentQueryTool", query |-> query, want_k |-> 0,
     dir |-> "OUTPUT_DIR", env_ok |-> TRUE,
     status |-> IF results = <<>> THEN "no_content" ELSE "ok",
     items |-> Ids(results), total |-> Len(results), answer |-> "none"]

\* os.listdir(output_dir) raised: the except clause returns the string
\* "Error querying content: ..." as the result of the tool
ContentQueryTool_except(query) ==
    [tool |-> "ContentQueryTool", query |-> query, want_k |-> 0,
     dir |-> "OUTPUT_DIR", env_ok |-> FALSE,
     status |-> "error_string", items |-> <<>>, total |-> 0, answer |-> "none"]

\* ContentQueryTool._run(query), output_dir left at Config.OUTPUT_DIR
ContentQueryTool_call(query) ==
    /\ q_out' = IF output_dir_exists
                THEN ContentQueryTool_return(query, ContentQueryTool_results(query))
                ELSE ContentQueryTool_except(query)
    /\ q_out' # q_out
    /\ UNCHANGED <<crawl_state, store, model_loaded, output_dir_exists, gp, wf, conf>>

\* ContentSummarizerTool._run(question); the caller wants k pages at most, and
\* _run has no parameter to say so.  Results without a page id are skipped.
ContentSummarizerTool_return(question, k, query_result, summaries) ==
    [tool |-> "ContentSummarizerTool", query |-> question, want_k |-> k,
     dir |-> "OUTPUT_DIR", env_ok |-> output_dir_exists,
     status |-> IF query_result = <<>> THEN "no_relevant"
                ELSE IF summaries = <<>> THEN "could_not_summarize"
                ELSE "ok",
     items |-> IF query_result = <<>> THEN <<>> ELSE summaries,
     total |-> Len(query_result),
     answer |-> IF summaries = <<>> THEN "none" ELSE "excerpts"]

\* the first three results that carry a page id, in order
summarized(query_result) ==
    SelectSeq(top_results(Ids(query_result)), LAMBDA id : id # SummaryId)

\* The inner query's "Error querying content" string does not start with "[",
\* so it counts as an empty list of results.
ContentSummarizerTool_call(question, k) ==
    /\ q_out' = IF output_dir_exists
                THEN ContentSummarizerTool_return(
                         question, k, ContentQueryTool_results(question),
                         summarized(ContentQueryTool_results(question)))
                ELSE ContentSummarizerTool_return(question, k, <<>>, <<>>)
    /\ q_out' # q_out
    /\ UNCHANGED <<crawl_state, store, model_loaded, output_dir_exists, gp, wf, conf>>

\* KnowledgeQueryTool._run(question); the caller wants k pages at most, and
\* _run has no parameter to say so.
KnowledgeQueryTool_return(question, k, relevant) ==
    [tool |-> "KnowledgeQueryTool", query |-> question, want_k |-> k,
     dir |-> "space_dir", env_ok |-> TRUE,
     status |-> IF relevant = <<>> THEN "no_relevant" ELSE "ok",
     items |-> top_results(Ids(relevant)),
     total |-> Len(relevant),
     answer |-> IF relevant = <<>> THEN "none" ELSE generate_response]

\* "No scraped data found" (the directory is not there) or "No scraped data
\* files found" (it holds no .json file), returned by the tools of agents.py
no_scraped_data(tool, query, k, dir) ==
    [tool |-> tool, query |-> query, want_k |-> k,
     dir |-> dir, env_ok |-> output_dir_exists,
     status |-> IF output_dir_exists THEN "no_data_files" ELSE "no_data",
     items |-> <<>>, total |-> 0, answer |-> "none"]

KnowledgeQueryTool_call(question, k, dir) ==
    /\ q_out' = IF output_dir_exists /\ has_json_files(dir)
                THEN KnowledgeQueryTool_return(question, k, relevant_content(question))
                ELSE no_scraped_data("KnowledgeQueryTool", question, k, dir)
    /\ q_out' # q_out
    /\ UNCHANGED <<crawl_state, store, model_loaded, output_dir_exists, gp, wf, conf>>

\* ContentSearchTool._run of agents.py: the pages of the loaded file whose
\* lowercased content or title contains the lowercased query
ContentSearchTool_return(query, dir, found) ==
    [tool |-> "ContentSearchTool", query |-> query, want_k |-> 0,
     dir |-> dir, env_ok |-> TRUE,
     status |-> IF found = <<>> THEN "no_relevant" ELSE "ok",
     items |-> Ids(found), total |-> Len(found), answer |-> "none"]

ContentSearchTool_found(query) ==
    SelectSeq(data_pages,
              LAMBDA d : \/ Contains(LowerStr(query), LowerStr(d.content))
                         \/ Contains(LowerStr(query), LowerStr(d.title)))

ContentSearchTool_call(query, dir) ==
    /\ q_out' = IF output_dir_exists /\ has_json_files(dir)
                THEN ContentSearchTool_return(query, dir, ContentSearchTool_found(query))
                ELSE no_scraped_data("ContentSearchTool", query, 0, dir)
    /\ q_out' # q_out
    /\ UNCHANGED <<crawl_state, store, model_loaded, output_dir_exists, gp, wf, conf>>

\* ConfluenceScraperTool._run(space_key), the Crawl operation of the agent
\* layer.  In agents.py scrape_space is called without await: the coroutine
\* never runs and result['pages'] raises TypeError.  In scraper_agent.py a
\* running loop is given run_until_complete, which raises RuntimeError; with no
\* running loop asyncio.run runs the crawl to its end (with INCLUDE_ATTACHMENTS,
\* as here, every page comes back as an error dict and no page file is
\* written) and the manifest is returned.  Every exception becomes the string
\* "Error scraping space ...".
ConfluenceScraperTool_run(module, loop_running, backend_ok, fs_ok) ==
    LET crawls == module = "scraper_agent" /\ ~loop_running
        listed == IF backend_ok
                  THEN BackendListPages(get_pages_in_space_args.start,
                                        get_pages_in_space_args.limit)
                  ELSE <<>>
    IN
    /\ include_attachments
    /\ q_out' = [tool |-> "ConfluenceScraperTool", query |-> <<>>, want_k |-> 0,
                 dir |-> module, env_ok |-> backend_ok /\ fs_ok,
                 status |-> IF module = "agents" THEN "error_string"
                            ELSE IF loop_running THEN "error_string"
                            ELSE IF ~fs_ok THEN "error_string"
                            ELSE "report",
                 items |-> <<>>,
                 total |-> IF crawls /\ fs_ok THEN Len(listed) ELSE 0,
                 answer |-> IF crawls THEN "crawl_ran" ELSE "crawl_not_run"]
    /\ output_dir_exists' = (output_dir_exists \/ (crawls /\ fs_ok))
    /\ <<q_out', output_dir_exists'>> # <<q_out, output_dir_exists>>
    /\ UNCHANGED <<crawl_state, store, model_loaded, gp, wf, conf>>

\* ConfluenceScraper.get_page_hierarchy: the pages of one backend listing, as a
\* flat list of {id, title, parentId}; a listing that raises gives no pages.
get_page_hierarchy(backend_ok) ==
    /\ q_out' = [tool |-> "get_page_hierarchy", query |-> <<>>, want_k |-> 0,
                 dir |-> "none", env_ok |-> backend_ok,
                 status |-> "ok",
                 items |-> IF backend_ok
                           THEN BackendListPages(get_pages_in_space_args.start,
                                                 get_pages_in_space_args.limit)
                           ELSE <<>>,
                 total |-> 0,
                 answer |-> "none"]
    /\ q_out' # q_out
    /\ UNCHANGED <<crawl_state, store, model_loaded, output_dir_exists, gp, wf, conf>>

\* LLaMAHandler.load_model: sets model_loaded when the model could be loaded
load_model(ok) ==
    /\ model_loaded' = ok
    /\ model_loaded' # model_loaded
    /\ UNCHANGED <<crawl_state, store, q_out, output_dir_exists, gp, wf, conf>>

\* A query process: the store holds what earlier crawls persisted, this process
\* runs no crawl, the model is not loaded yet.
QueryInit ==
    /\ N = MaxN
    /\ K = MaxK
    /\ max_pages = MaxPagesCap
    /\ include_attachments = TRUE
    /\ concurrency_limit = 1
    /\ run = 0
    /\ pc = "idle"
    /\ listing = <<>>
    /\ listing_failed = FALSE
    /\ pages = <<>>
    /\ task = <<>>
    /\ save_idx = 0
    /\ wstep = "closed"
    /\ result = NoResult
    /\ files = [i \in PageIds |-> Absent]
    /\ summary_file = NoSummary
    /\ write_failed = {}
    /\ read_obs = NoRead
    /\ attempts = [i \in PageIds |-> 0]
    /\ store \in UNION {[1..n -> Docs] : n \in 0..MaxStore}
    /\ model_loaded = FALSE
    /\ q_out = NoOutput
    /\ output_dir_exists \in BOOLEAN
    /\ output_dir_exists \/ store = <<>>
    /\ gp = NoPage
    /\ wf = NoWorkflow
    /\ conf = ShippedConf

QueryNext ==
    \/ \E query \in Queries : ContentQueryTool_call(query)
    \/ \E question \in Queries, k \in 1..MaxTopK : ContentSummarizerTool_call(question, k)
    \/ \E question \in Queries, k \in 1..MaxTopK, dir \in OutputDirs :
          KnowledgeQueryTool_call(question, k, dir)
    \/ \E query \in Queries, dir \in OutputDirs : ContentSearchTool_call(query, dir)
    \/ \E module \in {"agents", "scraper_agent"}, loop_running, ok, fs_ok \in BOOLEAN :
          ConfluenceScraperTool_run(module, loop_running, ok, fs_ok)
    \/ \E ok \in BOOLEAN : get_page_hierarchy(ok)
    \/ \E ok \in BOOLEAN : load_model(ok)

QuerySpec == QueryInit /\ [][QueryNext]_vars

\* ------------------------------------------------- notions the claims use
\* The ids of the page records in the store
StoredIds == 1..Len(store)

\* The query occurs in the title or in the plain-text content of stored page i,
\* compared case-insensitively
page_contains(query, i) ==
    \/ Contains(LowerStr(query), LowerStr(DocTexts[store[i]].title))
    \/ Contains(LowerStr(query), LowerStr(DocTexts[store[i]].content))

\* Relevance score: how many of the question's whitespace-split lowercase
\* tokens occur in the title or content of stored page i
score(question, i) ==
    Cardinality({k \in 1..Len(split(LowerStr(question))) :
                    page_contains(split(LowerStr(question))[k], i)})

QuestionTools == {"ContentSummarizerTool", "KnowledgeQueryTool"}

\* C16: a search returns exactly the stored pages whose title or content
\* contains the query, case-insensitively (stated here for non-empty queries).
C16_SearchExact ==
    (q_out.tool = "ContentQueryTool" /\ q_out.query # <<>>) =>
        SeqToSet(q_out.items) = {i \in StoredIds : page_contains(q_out.query, i)}

NothingFound == {"no_relevant", "could_not_summarize", "no_data", "no_data_files"}

C18_TopByScore ==
    q_out.tool = "KnowledgeQueryTool" =>
        \A i \in StoredIds \ SeqToSet(q_out.items), j \in SeqToSet(q_out.items) :
            score(q_out.query, i) <= score(q_out.query, j)

\* C19: the hierarchy is derived only from the pages in the store: it holds
\* the stored pages and no other.
C19_HierarchyFromStore ==
    q_out.tool = "get_page_hierarchy" => SeqToSet(q_out.items) = StoredIds

\* C20: with the model not loaded, a knowledge query over a store with matching
\* pages does not return the model-not-loaded placeholder.
C20_WorksWithoutModel ==
    (q_out.tool = "KnowledgeQueryTool" /\ q_out.total > 0) =>
        q_out.answer # "model_not_loaded"

\* The tools that read the store to answer a call
StoreReadTools == {"ContentQueryTool", "ContentSummarizerTool",
                   "KnowledgeQueryTool", "ContentSearchTool"}

\* C23: when reading the store fails during a query, the caller gets an error
\* (an exception, or at the least an error result), never a normal result such
\* as "no relevant content found".
C23_StoreFailureIsError ==
    (q_out.tool \in StoreReadTools /\ ~q_out.env_ok) =>
        q_out.status \in {"raised", "error_string"}

\* C26: crawler and search tools agree on the layout: a search given the
\* crawl's output directory and a non-empty query that is a substring of the
\* title of a persisted page returns that page, for the search tool of
\* query_agent.py and for the one of agents.py.
C26_LayoutAgrees ==
    (/\ q_out.tool \in {"ContentQueryTool", "ContentSearchTool"}
     /\ q_out.dir = "OUTPUT_DIR"
     /\ q_out.query # <<>>) =>
        \A i \in StoredIds :
            Contains(q_out.query, DocTexts[store[i]].title) =>
                i \in SeqToSet(q_out.items)

\* C27: every match of the content search is a persisted page record: the id
\* of each match is the id of a stored page, so the manifest file summary.json
\* (which has no page id) is never among the matches, whatever the query.
C27_MatchesArePages ==
    q_out.tool = "ContentQueryTool" =>
        /\ SeqToSet(q_out.items) \subseteq StoredIds
        /\ SummaryId \notin SeqToSet(q_out.items)

\* C28: the crawl tool of the agent layer runs the crawl to its end and, when
\* every backend call and file write succeeds, returns the report built from
\* the finished manifest, never an error string, whether or not an event loop
\* is running in the calling thread.
C28_CrawlToolReports ==
    (q_out.tool = "ConfluenceScraperTool" /\ q_out.env_ok) =>
        /\ q_out.status = "report"
        /\ q_out.answer = "crawl_ran"

\* ======================================================== get_page_content
\* One call of get_page_content followed closely: the payload the backend
\* holds for the page, the executor, the record built, and what the save loop
\* of scrape_space does with the result.

\* Extract content: every field of the payload is read with .get and a default
normalize(raw) ==
    [title |-> IF raw.title THEN "title" ELSE "Untitled",
     content |-> IF raw.body THEN "text" ELSE "",
     version |-> IF raw.version THEN "number" ELSE "1",
     attachments |-> "no_field"]

\* loop.run_in_executor(pool, ...): submitting to an executor that has been
\* shut down raises RuntimeError before anything is sent to the backend
run_in_executor(pool) == IF pool = "shutdown" THEN "RuntimeError" ELSE "submitted"

\* get_page_content(page_id) is called: the executor is created and
\* get_page_by_id is submitted to it
get_page_content_call ==
    /\ gp.pc = "idle"
    /\ gp' = [gp EXCEPT !.pc = "fetching", !.pool = "open"]
    /\ UNCHANGED <<crawl_state, store, model_loaded, q_out, output_dir_exists, wf, conf>>

\* get_page_by_id comes back (or raises).  The `with` block ends and shuts the
\* executor down; the record is built; with INCLUDE_ATTACHMENTS the attachment
\* listing is submitted to that executor; any exception gives an error dict.
get_page_by_id_return(ok) ==
    /\ gp.pc = "fetching"
    /\ LET att == IF ok /\ include_attachments
                  THEN run_in_executor("shutdown") ELSE "not_asked"
           sent == att = "submitted"
       IN gp' = [gp EXCEPT
                   !.pc = "returned",
                   !.pool = "shutdown",
                   !.fetch_ok = ok,
                   !.att_requests = IF sent THEN 1 ELSE 0,
                   !.result = IF ~ok THEN "error_fetch"
                              ELSE IF att = "RuntimeError" THEN "error_attachments"
                              ELSE IF sent /\ ~gp.att_backend_ok THEN "error_attachments"
                              ELSE "ok",
                   !.record = IF ~ok \/ att = "RuntimeError"
                                 \/ (sent /\ ~gp.att_backend_ok)
                              THEN NoPage.record
                              ELSE [normalize(gp.raw) EXCEPT
                                      !.attachments = IF sent THEN "listed"
                                                      ELSE "no_field"]]
    /\ gp'.result = get_page_content_result(ok)
    /\ UNCHANGED <<crawl_state, store, model_loaded, q_out, output_dir_exists, wf, conf>>

\* The save loop of scrape_space reaches the result: a dict without 'error' is
\* dumped to <id>.json and appended to the manifest, an error dict is skipped.
save_page_result ==
    /\ gp.pc = "returned"
    /\ gp' = [gp EXCEPT !.pc = "done", !.persisted = is_saved(gp.result)]
    /\ UNCHANGED <<crawl_state, store, model_loaded, q_out, output_dir_exists, wf, conf>>

\* Any payload the backend may hold for the page, either outcome of its
\* attachment listing, either setting of INCLUDE_ATTACHMENTS.
PageInit ==
    /\ N = MaxN
    /\ K = MaxK
    /\ max_pages = MaxPagesCap
    /\ include_attachments \in BOOLEAN
    /\ concurrency_limit = MaxLimit
    /\ CrawlIdle
    /\ store = <<>>
    /\ model_loaded = FALSE
    /\ q_out = NoOutput
    /\ output_dir_exists = TRUE
    /\ gp \in {[NoPage EXCEPT !.raw = r, !.att_backend_ok = a] :
                  r \in [title : BOOLEAN, body : BOOLEAN, version : BOOLEAN],
                  a \in BOOLEAN}
    /\ wf = NoWorkflow
    /\ conf = ShippedConf

PageNext ==
    \/ get_page_content_call
    \/ \E ok \in BOOLEAN : get_page_by_id_return(ok)
    \/ save_page_result

PageSpec == PageInit /\ [][PageNext]_vars

\* The payload carries title, rendered body and version
WellFormed == gp.raw.title /\ gp.raw.body /\ gp.raw.version

\* C21: with attachment enrichment enabled, a page whose fetch succeeded and
\* whose attachment listing fails is still persisted, with zero attachments.
C21_AttachmentFailureNotFatal ==
    (gp.pc = "done" /\ WellFormed /\ gp.fetch_ok /\ include_attachments
        /\ ~gp.att_backend_ok) =>
        gp.persisted /\ gp.record.attachments = "empty"

\* C22: a payload that lacks a required field (title, rendered body, version)
\* is never turned into a persisted page record.
C22_MalformedNeverPersisted ==
    gp.persisted => gp.raw.title /\ gp.raw.body /\ gp.raw.version

\* C24: a successfully fetched page is persisted, and its record carries an
\* attachments field exactly when enrichment is enabled: disabled, no listing
\* is requested and there is no field; enabled and the backend's attachment
\* listing succeeding, the page is persisted with its attachments.
C24_AttachmentsIffEnabled ==
    (gp.pc = "done" /\ WellFormed /\ gp.fetch_ok) =>
        IF include_attachments
        THEN gp.att_backend_ok => gp.persisted /\ gp.record.attachments = "listed"
        ELSE gp.persisted /\ gp.record.attachments = "no_field" /\ gp.att_requests = 0

\* ======================================================= run_full_workflow
\* ConfluenceCrewManager.run_full_workflow, called by
\* ConfluenceScraperApp.run_full_workflow: the steps started, the results
\* collected, and what the caller does with the outcome.

\* What a crew's kickoff may return: the text of its last task
CrewOutputs == {"output_a", "output_b"}

\* The arguments tried for user_query: the default None, the empty string, a
\* question
UserQueries == {"None", "", "q"}

\* (mutant) the query step runs whatever user_query is
query_wanted_always(user_query) == TRUE

\* `if user_query:`
query_wanted(user_query) == user_query \notin {"None", ""}

\* The step that follows a finished step, or "returned" after the last one
next_step(step, user_query, generate_document) ==
    IF step = "scraping" /\ query_wanted(user_query) THEN "query"
    ELSE IF step \in {"scraping", "query"} /\ generate_document THEN "document"
    ELSE "returned"

WorkflowSteps == {"scraping", "query", "document"}

\* ConfluenceScraperApp.run_full_workflow is entered with its arguments
App_run_full_workflow(user_query, generate_document) ==
    /\ wf.app = "none"
    /\ wf' = [wf EXCEPT !.app = "running", !.user_query = user_query,
                        !.generate_document = generate_document]
    /\ UNCHANGED <<crawl_state, store, model_loaded, q_out, output_dir_exists, gp, conf>>

\* crew_manager.run_full_workflow is called: results = {} and the scraping
\* crew is kicked off
run_full_workflow_call ==
    /\ wf.app = "running"
    /\ wf.pc = "idle"
    /\ wf' = [wf EXCEPT !.pc = "scraping", !.started = <<"scraping">>,
                        !.results = <<>>]
    /\ UNCHANGED <<crawl_state, store, model_loaded, q_out, output_dir_exists, gp, conf>>

\* The running crew's kickoff returns: its output is stored under the step's
\* key and the next step wanted is started, or results is returned
kickoff_return(out) ==
    LET next == next_step(wf.pc, wf.user_query, wf.generate_document) IN
    /\ wf.pc \in WorkflowSteps
    /\ wf' = [wf EXCEPT !.results = Append(wf.results, <<wf.pc, out>>),
                        !.pc = next,
                        !.started = IF next \in WorkflowSteps
                                    THEN Append(wf.started, next)
                                    ELSE wf.started]
    /\ UNCHANGED <<crawl_state, store, model_loaded, q_out, output_dir_exists, gp, conf>>

\* The running crew's creation or kickoff raises: `except Exception` logs and
\* re-raises
kickoff_raise ==
    /\ wf.pc \in WorkflowSteps
    /\ wf' = [wf EXCEPT !.pc = "raised"]
    /\ UNCHANGED <<crawl_state, store, model_loaded, q_out, output_dir_exists, gp, conf>>

\* The caller gets the outcome: it prints the results it was returned, or
\* catches the exception and prints the error
App_run_full_workflow_return ==
    /\ wf.app = "running"
    /\ wf.pc \in {"returned", "raised"}
    /\ wf' = [wf EXCEPT !.app = IF wf.pc = "returned" THEN "printed_results"
                                ELSE "printed_error"]
    /\ UNCHANGED <<crawl_state, store, model_loaded, q_out, output_dir_exists, gp, conf>>

WorkflowInit ==
    /\ N = MaxN
    /\ K = MaxK
    /\ max_pages = MaxPagesCap
    /\ include_attachments = TRUE
    /\ concurrency_limit = MaxLimit
    /\ CrawlIdle
    /\ store = <<>>
    /\ model_loaded = TRUE
    /\ q_out = NoOutput
    /\ output_dir_exists = TRUE
    /\ gp = NoPage
    /\ wf = NoWorkflow
    /\ conf = ShippedConf

WorkflowNext ==
    \/ \E user_query \in UserQueries, generate_document \in BOOLEAN :
          App_run_full_workflow(user_query, generate_document)
    \/ run_full_workflow_call
    \/ \E out \in CrewOutputs : kickoff_return(out)
    \/ kickoff_raise
    \/ App_run_full_workflow_return

WorkflowSpec == WorkflowInit /\ [][WorkflowNext]_vars

\* The steps a call with these arguments is to run, in order
ExpectedSteps ==
    <<"scraping">>
        \o (IF wf.user_query \notin {"None", ""} THEN <<"query">> ELSE <<>>)
        \o (IF wf.generate_document THEN <<"document">> ELSE <<>>)

IsPrefix(s, t) == Len(s) <= Len(t) /\ \A i \in 1..Len(s) : s[i] = t[i]

ResultKeys == [i \in 1..Len(wf.results) |-> wf.results[i][1]]

\* C29: run_full_workflow runs scrape, then query (only with a user query),
\* then document generation (only when requested), each step started after the
\* one before has finished; what it returns has a key exactly for each step
\* that ran; when a step raises no later step is started and the caller gets
\* the exception, not a result.
C29_WorkflowOrder ==
    /\ IsPrefix(wf.started, ExpectedSteps)
    /\ IsPrefix(ResultKeys, wf.started)
    /\ wf.pc \in WorkflowSteps =>
          /\ wf.started[Len(wf.started)] = wf.pc
          /\ Len(ResultKeys) = Len(wf.started) - 1
    /\ wf.pc = "returned" =>
          /\ wf.started = ExpectedSteps
          /\ ResultKeys = ExpectedSteps
    /\ wf.pc = "raised" =>
          /\ Len(ResultKeys) = Len(wf.started) - 1
          /\ wf.app # "printed_results"
    /\ wf.app = "printed_results" => wf.pc = "returned"
    /\ wf.app = "printed_error" => wf.pc = "raised"

\* the query step raised in a call asking for all three steps: scraping has
\* its result, the document step was never started, the caller has the error
C29_Witness ==
    /\ wf.pc = "raised"
    /\ wf.generate_document
    /\ wf.started = <<"scraping", "query">>
    /\ ResultKeys = <<"scraping">>
    /\ wf.app = "printed_error"

\* ========================================================= Config.validate
\* A setting is the sequence of the pieces of its text, cut so that the
\* prefixes and the character validate looks for are pieces of their own.

\* str.startswith(prefix)
StartsWith(value, prefix) == value # <<>> /\ value[1] = prefix

\* The values tried for each required setting: empty, the shipped default, a
\* real value, and a value of the wrong form
Urls == {<<>>, ShippedConf.url, <<"https://", "wiki.example.com">>,
         <<"wiki.example.com">>}

Usernames == {<<>>, ShippedConf.username, <<"me", "@", "example.com">>, <<"me">>}

ApiTokens == {<<>>, ShippedConf.token, <<"secret">>}

ModelPaths == {<<>>, ShippedConf.model_path, <<"/models/llama">>}

RequiredVars == {"CONFLUENCE_URL", "CONFLUENCE_USERNAME", "CONFLUENCE_API_TOKEN",
                 "LLAMA_MODEL_PATH"}

\* required_vars: the value of each required setting
var_value(c, var_name) ==
    CASE var_name = "CONFLUENCE_URL" -> c.url
      [] var_name = "CONFLUENCE_USERNAME" -> c.username
      [] var_name = "CONFLUENCE_API_TOKEN" -> c.token
      [] var_name = "LLAMA_MODEL_PATH" -> c.model_path

\* `if not var_value or var_value.startswith('your-')`
is_missing(value) == value = <<>> \/ StartsWith(value, "your-")

\* The elif chain of the loop, reached when the value is not missing
is_invalid(c, var_name) ==
    /\ ~is_missing(var_value(c, var_name))
    /\ \/ /\ var_name = "CONFLUENCE_URL"
          /\ ~StartsWith(c.url, "http://")
          /\ ~StartsWith(c.url, "https://")
       \/ /\ var_name = "CONFLUENCE_USERNAME"
          /\ ~\E i \in 1..Len(c.username) : c.username[i] = "@"
       \/ /\ var_name = "LLAMA_MODEL_PATH"
          /\ ~c.path_exists

\* Config.validate(): collects the missing and the invalid settings, raises
\* ValueError if there is any, otherwise creates OUTPUT_DIR and TEMP_DIR and
\* returns True
validate ==
    LET missing == {v \in RequiredVars : is_missing(var_value(conf, v))}
        invalid == {v \in RequiredVars : is_invalid(conf, v)}
                       \cup (IF conf.numbers_ok THEN {} ELSE {"MAX_TOKENS"})
                       \cup (IF max_pages <= 0 THEN {"MAX_PAGES_PER_SPACE"} ELSE {})
        ok == missing = {} /\ invalid = {}
    IN
    /\ conf.outcome = "none"
    /\ conf' = [conf EXCEPT !.outcome = IF ok THEN "True" ELSE "ValueError",
                            !.missing_vars = missing,
                            !.invalid_vars = invalid,
                            !.dirs_created = ok]
    /\ output_dir_exists' = (output_dir_exists \/ ok)
    /\ UNCHANGED <<crawl_state, store, model_loaded, q_out, gp, wf>>

\* Any environment: each required setting empty, left at its default, real or
\* ill-formed; the model path there or not; the numeric settings in range or
\* not
ConfigInit ==
    /\ N = MaxN
    /\ K = MaxK
    /\ max_pages \in 0..MaxPagesCap
    /\ include_attachments = TRUE
    /\ concurrency_limit = MaxLimit
    /\ CrawlIdle
    /\ store = <<>>
    /\ model_loaded = FALSE
    /\ q_out = NoOutput
    /\ output_dir_exists = FALSE
    /\ gp = NoPage
    /\ wf = NoWorkflow
    /\ conf \in {[ShippedConf EXCEPT !.url = u, !.username = n, !.token = t,
                                      !.model_path = m, !.path_exists = e,
                                      !.numbers_ok = k] :
                     u \in Urls, n \in Usernames, t \in ApiTokens,
                     m \in ModelPaths, e \in BOOLEAN, k \in BOOLEAN}
    /\ conf.model_path = <<>> => ~conf.path_exists

ConfigNext == validate

ConfigSpec == ConfigInit /\ [][ConfigNext]_vars

\* The settings whose shipped default is a placeholder text (the default of
\* the model path is a path that may exist on the machine)
PlaceholderVars == {"CONFLUENCE_URL", "CONFLUENCE_USERNAME", "CONFLUENCE_API_TOKEN"}

\* The required settings that are empty or still at the shipped placeholder
NotGiven == {v \in RequiredVars :
                \/ var_value(conf, v) = <<>>
                \/ /\ v \in PlaceholderVars
                   /\ var_value(conf, v) = var_value(ShippedConf, v)}

\* C30: validate returns True only when every required setting has a real
\* value: if any is empty or still the shipped default it raises ValueError,
\* and when it raises it has created no directory.
C30_ValidateRejectsDefaults ==
    /\ conf.outcome = "True" => NotGiven = {}
    /\ (conf.outcome # "none" /\ NotGiven # {}) => conf.outcome = "ValueError"
    /\ conf.outcome = "ValueError" => ~conf.dirs_created /\ ~output_dir_exists

====
